---- MODULE Spec2Model ----
(***************************************************************************)
(* A model of autork's duel engine (src/autork/engine.py): PlayerState,   *)
(* the economy, command application, neutral allocation, combat and the   *)
(* run loop of Engine, with the two policies as nondeterministic inputs.  *)
(*                                                                         *)
(* eng is the Engine object (self): turn, neutral_territory, p1, p2,      *)
(* history and trace ("sink" for a trace callback, "none" for the no-op   *)
(* that __init__ puts in place of trace=None); its field sunk is what the *)
(* sink was handed last.  Every Engine method is an operator from an engine record to  *)
(* an engine record, every PlayerState method an operator from a player   *)
(* record to a player record.  pc is the position inside run() and        *)
(* _play_turn(); obs1/obs2 and cmd1/cmd2 are _play_turn's locals.         *)
(***************************************************************************)
EXTENDS Integers, Sequences, FiniteSets, TLC

VARIABLES cfg, eng, pc, obs1, obs2, cmd1, cmd2, result

vars == <<cfg, eng, pc, obs1, obs2, cmd1, cmd2, result>>

(***************************************************************************)
(* The GameSettings object of the match.  Engine takes any GameSettings   *)
(* (game_settings=...), so the settings are an input of the model; the    *)
(* values below are a scaled-down settings object that keeps the shape of *)
(* the defaults of config.py (prices above income, attack upkeep above    *)
(* defense upkeep) and lets a few turns reach purchases, forced           *)
(* liquidation, combat losses and elimination.                            *)
(***************************************************************************)
MAX_TURNS == 3
START_GOLD == 4
START_TERRITORY == 3
NEUTRAL_TERRITORY == 3
START_ATTACK == 0
START_DEFENSE == 0
GOLD_PER_LAND == 1
EXPAND_BASE == 2
EXPAND_STEP == 1
ATK_BASE == 3
ATK_K == 1
DEF_BASE == 3
DEF_K == 1
MAINT_ATK == 2
MAINT_DEF == 1
SCOUT_COST == 2

GameSettings ==
  [MAX_TURNS |-> MAX_TURNS, START_GOLD |-> START_GOLD,
   START_TERRITORY |-> START_TERRITORY, NEUTRAL_TERRITORY |-> NEUTRAL_TERRITORY,
   START_ATTACK |-> START_ATTACK, START_DEFENSE |-> START_DEFENSE,
   GOLD_PER_LAND |-> GOLD_PER_LAND, EXPAND_BASE |-> EXPAND_BASE,
   EXPAND_STEP |-> EXPAND_STEP, ATK_BASE |-> ATK_BASE, ATK_K |-> ATK_K,
   DEF_BASE |-> DEF_BASE, DEF_K |-> DEF_K, MAINT_ATK |-> MAINT_ATK,
   MAINT_DEF |-> MAINT_DEF, SCOUT_COST |-> SCOUT_COST]

(* Bounds of the settings the one-turn specification draws its match from. *)
MaxStartGold == 3
MaxStartUnits == 2
MaxStartTerritory == 2
MaxNeutral == 2
MaxWanted == 3
MaxAlt == 1

Max(a, b) == IF a >= b THEN a ELSE b
Min(a, b) == IF a <= b THEN a ELSE b

(***************************************************************************)
(* Commands: Python dicts, modelled as functions from their keys.  The    *)
(* numeric fields are Python ints, on which int() is the identity.        *)
(***************************************************************************)
EmptyCmd == [k \in {} |-> 0]

Get(cmd, k, default) == IF k \in DOMAIN cmd THEN cmd[k] ELSE default

(***************************************************************************)
(* PlayerState                                                             *)
(***************************************************************************)
PlayerState ==
  [gold |-> cfg.START_GOLD, territory |-> cfg.START_TERRITORY,
   attack |-> cfg.START_ATTACK, defense |-> cfg.START_DEFENSE,
   expanded_total |-> 0, pending_expands |-> 0, has_enemy_intel |-> FALSE]

income(pl) == pl.territory * cfg.GOLD_PER_LAND

upkeep_cost(pl) == pl.attack * cfg.MAINT_ATK + pl.defense * cfg.MAINT_DEF

(* Mutant: defense units are liquidated before attack units. *)
RECURSIVE upkeep_loop_defense_first(_, _)
upkeep_loop_defense_first(pl, deficit) ==
  IF deficit > 0 /\ (pl.attack # 0 \/ pl.defense # 0)
  THEN IF pl.defense # 0
       THEN upkeep_loop_defense_first([pl EXCEPT !.defense = @ - 1, !.gold = @ + cfg.MAINT_DEF],
                                      deficit - cfg.MAINT_DEF)
       ELSE upkeep_loop_defense_first([pl EXCEPT !.attack = @ - 1, !.gold = @ + cfg.MAINT_ATK],
                                      deficit - cfg.MAINT_ATK)
  ELSE pl

(* Mutant: a unit is liquidated also when the deficit is exactly 0. *)
RECURSIVE upkeep_loop_overshoot(_, _)
upkeep_loop_overshoot(pl, deficit) ==
  IF deficit >= 0 /\ (pl.attack # 0 \/ pl.defense # 0)
  THEN IF pl.attack # 0
       THEN upkeep_loop_overshoot([pl EXCEPT !.attack = @ - 1, !.gold = @ + cfg.MAINT_ATK],
                                  deficit - cfg.MAINT_ATK)
       ELSE upkeep_loop_overshoot([pl EXCEPT !.defense = @ - 1, !.gold = @ + cfg.MAINT_DEF],
                                  deficit - cfg.MAINT_DEF)
  ELSE pl

(* Mutant: a liquidated unit's upkeep is not given back. *)
RECURSIVE upkeep_loop_no_refund(_, _)
upkeep_loop_no_refund(pl, deficit) ==
  IF deficit > 0 /\ (pl.attack # 0 \/ pl.defense # 0)
  THEN IF pl.attack # 0
       THEN upkeep_loop_no_refund([pl EXCEPT !.attack = @ - 1], deficit - cfg.MAINT_ATK)
       ELSE upkeep_loop_no_refund([pl EXCEPT !.defense = @ - 1], deficit - cfg.MAINT_DEF)
  ELSE pl

(* The while loop of apply_upkeep: one unit per iteration, attack first. *)
RECURSIVE upkeep_loop(_, _)
upkeep_loop(pl, deficit) ==
  IF deficit > 0 /\ (pl.attack # 0 \/ pl.defense # 0)
  THEN IF pl.attack # 0
       THEN upkeep_loop([pl EXCEPT !.attack = @ - 1, !.gold = @ + cfg.MAINT_ATK],
                        deficit - cfg.MAINT_ATK)
       ELSE upkeep_loop([pl EXCEPT !.defense = @ - 1, !.gold = @ + cfg.MAINT_DEF],
                        deficit - cfg.MAINT_DEF)
  ELSE pl

apply_upkeep(pl) ==
  LET paid == [pl EXCEPT !.gold = @ - upkeep_cost(pl)]
  IN  IF paid.gold >= 0
      THEN paid
      ELSE LET q == upkeep_loop(paid, -paid.gold)
           IN  IF q.gold < 0 THEN [q EXCEPT !.gold = 0] ELSE q

(* Mutant: the price does not rise with the cells already requested. *)
expand_price_flat(pl, extra) ==
  cfg.EXPAND_BASE + cfg.EXPAND_STEP * pl.expanded_total

expand_price(pl, extra) ==
  cfg.EXPAND_BASE + cfg.EXPAND_STEP * (pl.expanded_total + extra)

(* Mutant: a cell is bought only while gold stays above its price. *)
RECURSIVE pay_loop_strict(_, _, _)
pay_loop_strict(pl, bought, wanted) ==
  IF bought < wanted /\ pl.gold > expand_price(pl, bought)
  THEN pay_loop_strict([pl EXCEPT !.gold = @ - expand_price(pl, bought)], bought + 1, wanted)
  ELSE [pl EXCEPT !.pending_expands = bought]

(* Mutant: the cells paid for count towards the price at once. *)
RECURSIVE pay_loop_counts_paid(_, _, _)
pay_loop_counts_paid(pl, bought, wanted) ==
  IF bought < wanted /\ pl.gold >= expand_price(pl, bought)
  THEN pay_loop_counts_paid([pl EXCEPT !.gold = @ - expand_price(pl, bought)], bought + 1, wanted)
  ELSE [pl EXCEPT !.pending_expands = bought, !.expanded_total = @ + bought]

(* The while loop of pay_for_expands; the value returned is pending_expands. *)
RECURSIVE pay_loop(_, _, _)
pay_loop(pl, bought, wanted) ==
  IF bought < wanted /\ pl.gold >= expand_price(pl, bought)
  THEN pay_loop([pl EXCEPT !.gold = @ - expand_price(pl, bought)], bought + 1, wanted)
  ELSE [pl EXCEPT !.pending_expands = bought]

pay_for_expands(pl, wanted) == pay_loop(pl, 0, wanted)

attack_price(pl) == cfg.ATK_BASE + cfg.ATK_K * pl.attack

defense_price(pl) == cfg.DEF_BASE + cfg.DEF_K * pl.defense

(* Mutant: a unit is bought only while the limit stays above its price. *)
RECURSIVE buy_attack_loop_strict(_, _, _)
buy_attack_loop_strict(pl, spent, gold_limit) ==
  IF gold_limit - spent > attack_price(pl)
  THEN buy_attack_loop_strict([pl EXCEPT !.attack = @ + 1], spent + attack_price(pl), gold_limit)
  ELSE [pl |-> pl, spent |-> spent]

(* The while loops of buy_attack / buy_defense: gold is charged after them. *)
RECURSIVE buy_attack_loop(_, _, _)
buy_attack_loop(pl, spent, gold_limit) ==
  IF gold_limit - spent >= attack_price(pl)
  THEN buy_attack_loop([pl EXCEPT !.attack = @ + 1], spent + attack_price(pl), gold_limit)
  ELSE [pl |-> pl, spent |-> spent]

buy_attack(pl, gold_limit) ==
  LET r == buy_attack_loop(pl, 0, gold_limit)
  IN  [r.pl EXCEPT !.gold = @ - r.spent]

RECURSIVE buy_defense_loop(_, _, _)
buy_defense_loop(pl, spent, gold_limit) ==
  IF gold_limit - spent >= defense_price(pl)
  THEN buy_defense_loop([pl EXCEPT !.defense = @ + 1], spent + defense_price(pl), gold_limit)
  ELSE [pl |-> pl, spent |-> spent]

buy_defense(pl, gold_limit) ==
  LET r == buy_defense_loop(pl, 0, gold_limit)
  IN  [r.pl EXCEPT !.gold = @ - r.spent]

(* Mutant: the refund is half the current price, not half the base price. *)
refund_attack_dynamic(pl, units) ==
  LET u == Max(0, Min(units, pl.attack))
  IN  [pl EXCEPT !.attack = @ - u, !.gold = @ + u * (attack_price(pl) \div 2)]

refund_attack(pl, units) ==
  LET u == Max(0, Min(units, pl.attack))
  IN  [pl EXCEPT !.attack = @ - u, !.gold = @ + u * (cfg.ATK_BASE \div 2)]

(* Mutant: the units sold are not clamped to the units held. *)
refund_defense_unclamped(pl, units) ==
  LET u == Max(0, units)
  IN  [pl EXCEPT !.defense = @ - u, !.gold = @ + u * (cfg.DEF_BASE \div 2)]

refund_defense(pl, units) ==
  LET u == Max(0, Min(units, pl.defense))
  IN  [pl EXCEPT !.defense = @ - u, !.gold = @ + u * (cfg.DEF_BASE \div 2)]

(***************************************************************************)
(* Engine                                                                  *)
(***************************************************************************)
Player(E, pid) == IF pid = 1 THEN E.p1 ELSE E.p2

SetPlayer(E, pid, pl) == IF pid = 1 THEN [E EXCEPT !.p1 = pl] ELSE [E EXCEPT !.p2 = pl]

PublicState(pl) ==
  [territory |-> pl.territory, gold |-> pl.gold,
   attack |-> pl.attack, defense |-> pl.defense]

record_snapshot(E) ==
  [E EXCEPT !.history = Append(@, [turn |-> E.turn, neutral |-> E.neutral_territory,
                                   p1 |-> PublicState(E.p1), p2 |-> PublicState(E.p2)])]

reset ==
  record_snapshot([turn |-> 0, neutral_territory |-> cfg.NEUTRAL_TERRITORY,
                   p1 |-> PlayerState, p2 |-> PlayerState, history |-> << >>])

(* __init__: self.trace = trace or (lambda *_: None), then reset(). *)
Engine(tr) ==
  [turn |-> reset.turn, neutral_territory |-> reset.neutral_territory,
   p1 |-> reset.p1, p2 |-> reset.p2, history |-> reset.history,
   trace |-> tr, sunk |-> 0]

(* reset() called on an engine: every attribute but trace starts anew. *)
reset_engine(E) ==
  [E EXCEPT !.turn = reset.turn, !.neutral_territory = reset.neutral_territory,
            !.p1 = reset.p1, !.p2 = reset.p2, !.history = reset.history]

(* n calls of self.trace(line) in a row: a sink is handed the n lines,   *)
(* the no-op drops them; the call returns nothing to the engine.         *)
trace(E, n) == IF E.trace = "sink" /\ n > 0 THEN [E EXCEPT !.sunk = n] ELSE E

(* self.turn += 1 *)
begin_turn(E) == [E EXCEPT !.turn = @ + 1]

(* _play_turn step 1, for one player: income, then apply_upkeep. *)
economy(E, pid) ==
  LET pl == Player(E, pid)
  IN  SetPlayer(E, pid, apply_upkeep([pl EXCEPT !.gold = @ + income(pl)]))

(* Mutant: the observation is gated on the opponent's intel flag. *)
prepare_obs_enemy_flag(E, pid) ==
  LET me == Player(E, pid)
      enemy == Player(E, 3 - pid)
  IN  [turn |-> E.turn,
       my |-> [gold |-> me.gold, territory |-> me.territory,
               attack |-> me.attack, defense |-> me.defense],
       enemy |-> IF enemy.has_enemy_intel
                 THEN [territory |-> enemy.territory, gold |-> enemy.gold,
                       attack |-> enemy.attack, defense |-> enemy.defense]
                 ELSE [territory |-> enemy.territory],
       neutral_territory |-> E.neutral_territory,
       prices |-> [expand_next |-> expand_price(me, 0),
                   buy_attack |-> attack_price(me),
                   buy_defense |-> defense_price(me),
                   scout |-> cfg.SCOUT_COST],
       limits |-> [gold |-> me.gold]]

(* Mutant: the opponent's defense is shown with or without intel. *)
prepare_obs_leaks_defense(E, pid) ==
  LET me == Player(E, pid)
      enemy == Player(E, 3 - pid)
  IN  [turn |-> E.turn,
       my |-> [gold |-> me.gold, territory |-> me.territory,
               attack |-> me.attack, defense |-> me.defense],
       enemy |-> IF me.has_enemy_intel
                 THEN [territory |-> enemy.territory, gold |-> enemy.gold,
                       attack |-> enemy.attack, defense |-> enemy.defense]
                 ELSE [territory |-> enemy.territory, defense |-> enemy.defense],
       neutral_territory |-> E.neutral_territory,
       prices |-> [expand_next |-> expand_price(me, 0),
                   buy_attack |-> attack_price(me),
                   buy_defense |-> defense_price(me),
                   scout |-> cfg.SCOUT_COST],
       limits |-> [gold |-> me.gold]]

(* _prepare_obs: the observation and price list handed to player pid. *)
prepare_obs(E, pid) ==
  LET me == Player(E, pid)
      enemy == Player(E, 3 - pid)
  IN  [turn |-> E.turn,
       my |-> [gold |-> me.gold, territory |-> me.territory,
               attack |-> me.attack, defense |-> me.defense],
       enemy |-> IF me.has_enemy_intel
                 THEN [territory |-> enemy.territory, gold |-> enemy.gold,
                       attack |-> enemy.attack, defense |-> enemy.defense]
                 ELSE [territory |-> enemy.territory],
       neutral_territory |-> E.neutral_territory,
       prices |-> [expand_next |-> expand_price(me, 0),
                   buy_attack |-> attack_price(me),
                   buy_defense |-> defense_price(me),
                   scout |-> cfg.SCOUT_COST],
       limits |-> [gold |-> me.gold]]

(* The line _safe_step traces when the step call fails. *)
error_lines(outcome) == IF outcome.kind = "dict" THEN 0 ELSE 1

(* What a call of strat.step can do: raise, return a non-dict, return a dict. *)
StepOutcomes(Commands) ==
  {[kind |-> "raise"], [kind |-> "nondict"]} \cup {[kind |-> "dict", res |-> c] : c \in Commands}

safe_step(outcome) == IF outcome.kind = "dict" THEN outcome.res ELSE EmptyCmd

(* The six steps of _apply_commands on the issuing player, in code order. *)
sell_attack_step(pl, cmd) ==
  LET sell_atk == Max(0, Get(cmd, "sell_attack", 0))
  IN  IF sell_atk # 0 THEN refund_attack(pl, sell_atk) ELSE pl

sell_defense_step(pl, cmd) ==
  LET sell_def == Max(0, Get(cmd, "sell_defense", 0))
  IN  IF sell_def # 0 THEN refund_defense(pl, sell_def) ELSE pl

expand_step(pl, cmd) == pay_for_expands(pl, Max(0, Get(cmd, "expand", 0)))

(* Mutant: a paid scout marks the intel flag at once. *)
scout_step_marks_intel(pl, cmd) ==
  IF Get(cmd, "scout", FALSE) /\ pl.gold >= cfg.SCOUT_COST
  THEN [pl EXCEPT !.gold = @ - cfg.SCOUT_COST, !.has_enemy_intel = TRUE]
  ELSE pl

scout_step(pl, cmd) ==
  IF Get(cmd, "scout", FALSE) /\ pl.gold >= cfg.SCOUT_COST
  THEN [pl EXCEPT !.gold = @ - cfg.SCOUT_COST]
  ELSE pl

(* Mutant: the requested spend is not clamped to the gold in hand. *)
spend_attack_step_unclamped(pl, cmd) ==
  buy_attack(pl, Max(0, Get(cmd, "spend_attack", 0)))

spend_attack_step(pl, cmd) ==
  buy_attack(pl, Min(Max(0, Get(cmd, "spend_attack", 0)), pl.gold))

spend_defense_step(pl, cmd) ==
  buy_defense(pl, Min(Max(0, Get(cmd, "spend_defense", 0)), pl.gold))

(* Mutant: the sales are applied after the purchases. *)
apply_steps_sales_last(pl, cmd) ==
  LET s1 == expand_step(pl, cmd)
      s2 == scout_step(s1, cmd)
      s3 == spend_attack_step(s2, cmd)
      s4 == spend_defense_step(s3, cmd)
      s5 == sell_attack_step(s4, cmd)
      s6 == sell_defense_step(s5, cmd)
  IN  <<s1, s2, s3, s4, s5, s6>>

(* The player after each of the six steps. *)
apply_steps(pl, cmd) ==
  LET s1 == sell_attack_step(pl, cmd)
      s2 == sell_defense_step(s1, cmd)
      s3 == expand_step(s2, cmd)
      s4 == scout_step(s3, cmd)
      s5 == spend_attack_step(s4, cmd)
      s6 == spend_defense_step(s5, cmd)
  IN  <<s1, s2, s3, s4, s5, s6>>

(* Mutant: the paid-for cells are taken from the pool at once, as the   *)
(* command is applied, instead of being left as a pending bid.          *)
apply_commands_grants_at_once(E, pid, cmd) ==
  LET pl == apply_steps(Player(E, pid), cmd)[6]
      give == Min(pl.pending_expands, E.neutral_territory)
  IN  [SetPlayer(E, pid, [pl EXCEPT !.territory = @ + give, !.expanded_total = @ + give,
                                    !.pending_expands = 0])
         EXCEPT !.neutral_territory = @ - give]

(* Mutant: a command with an unrecognized key is dropped as a whole. *)
apply_commands_rejects_unknown(E, pid, cmd) ==
  IF DOMAIN cmd \subseteq {"sell_attack", "sell_defense", "expand", "spend_attack",
                           "spend_defense", "scout"}
  THEN SetPlayer(E, pid, apply_steps(Player(E, pid), cmd)[6])
  ELSE E

apply_commands(E, pid, cmd) == SetPlayer(E, pid, apply_steps(Player(E, pid), cmd)[6])

(* The number of lines _apply_commands traces for player pl and cmd. *)
apply_lines(pl, cmd) ==
  LET s == apply_steps(pl, cmd)
      atk_spend == Min(Max(0, Get(cmd, "spend_attack", 0)), s[4].gold)
      def_spend == Min(Max(0, Get(cmd, "spend_defense", 0)), s[5].gold)
      One(b) == IF b THEN 1 ELSE 0
  IN  One(Max(0, Get(cmd, "sell_attack", 0)) # 0)
      + One(Max(0, Get(cmd, "sell_defense", 0)) # 0)
      + One(s[3].pending_expands < Max(0, Get(cmd, "expand", 0)))
      + One(Get(cmd, "scout", FALSE))
      + One(s[4].gold - s[5].gold < atk_spend)
      + One(s[5].gold - s[6].gold < def_spend)
      + Cardinality(DOMAIN cmd \ {"sell_attack", "sell_defense", "expand",
                                  "spend_attack", "spend_defense", "scout"})

(* Mutant: the grants are worked out only for the line written to a sink. *)
allocate_neutral_needs_sink(E) ==
  LET a1 == E.p1.pending_expands
      a2 == E.p2.pending_expands
      N == E.neutral_territory
      contested == Min(Min(a1, a2), N)
      give1 == IF E.trace = "sink" THEN Min(a1 - contested, N - contested) ELSE 0
      give2 == IF E.trace = "sink" THEN Min(a2 - contested, N - contested - give1) ELSE 0
  IN  [E EXCEPT !.p1.territory = @ + give1, !.p1.expanded_total = @ + give1,
                !.p2.territory = @ + give2, !.p2.expanded_total = @ + give2,
                !.neutral_territory = N - give1 - give2,
                !.p1.pending_expands = 0, !.p2.pending_expands = 0]

(* Mutant: the contested cells are not put back into the pool. *)
allocate_neutral_drops_contested(E) ==
  LET a1 == E.p1.pending_expands
      a2 == E.p2.pending_expands
      N == E.neutral_territory
      contested == Min(Min(a1, a2), N)
      give1 == Min(a1 - contested, N - contested)
      give2 == Min(a2 - contested, N - contested - give1)
  IN  [E EXCEPT !.p1.territory = @ + give1, !.p1.expanded_total = @ + give1,
                !.p2.territory = @ + give2, !.p2.expanded_total = @ + give2,
                !.neutral_territory = N - contested - give1 - give2,
                !.p1.pending_expands = 0, !.p2.pending_expands = 0]

(* Mutant: agent 2's grant is computed from agent 1's unique demand. *)
allocate_neutral_copy_paste(E) ==
  LET a1 == E.p1.pending_expands
      a2 == E.p2.pending_expands
      N == E.neutral_territory
      contested == Min(Min(a1, a2), N)
      r1_unique == a1 - contested
      give1 == Min(r1_unique, N - contested)
      give2 == Min(r1_unique, N - contested - give1)
  IN  [E EXCEPT !.p1.territory = @ + give1, !.p1.expanded_total = @ + give1,
                !.p2.territory = @ + give2, !.p2.expanded_total = @ + give2,
                !.neutral_territory = N - give1 - give2,
                !.p1.pending_expands = 0, !.p2.pending_expands = 0]

(* Mutant: when the bids overlap, agent 1 takes the contested cells. *)
allocate_neutral_tie_to_first(E) ==
  LET a1 == E.p1.pending_expands
      a2 == E.p2.pending_expands
      N == E.neutral_territory
      contested == Min(Min(a1, a2), N)
      give1 == Min(a1, N)
      give2 == Min(a2 - contested, N - give1)
  IN  [E EXCEPT !.p1.territory = @ + give1, !.p1.expanded_total = @ + give1,
                !.p2.territory = @ + give2, !.p2.expanded_total = @ + give2,
                !.neutral_territory = N - give1 - give2,
                !.p1.pending_expands = 0, !.p2.pending_expands = 0]

(* Mutant: the cells paid for and not granted are refunded at base price. *)
allocate_neutral_refunds(E) ==
  LET a1 == E.p1.pending_expands
      a2 == E.p2.pending_expands
      N == E.neutral_territory
      contested == Min(Min(a1, a2), N)
      give1 == Min(a1 - contested, N - contested)
      give2 == Min(a2 - contested, N - contested - give1)
  IN  [E EXCEPT !.p1.territory = @ + give1, !.p1.expanded_total = @ + give1,
                !.p2.territory = @ + give2, !.p2.expanded_total = @ + give2,
                !.p1.gold = @ + (a1 - give1) * cfg.EXPAND_BASE,
                !.p2.gold = @ + (a2 - give2) * cfg.EXPAND_BASE,
                !.neutral_territory = N - give1 - give2,
                !.p1.pending_expands = 0, !.p2.pending_expands = 0]

(* Mutant: the part of a bid that was not granted stays pending. *)
allocate_neutral_keeps_bid(E) ==
  LET a1 == E.p1.pending_expands
      a2 == E.p2.pending_expands
      N == E.neutral_territory
      contested == Min(Min(a1, a2), N)
      give1 == Min(a1 - contested, N - contested)
      give2 == Min(a2 - contested, N - contested - give1)
  IN  [E EXCEPT !.p1.territory = @ + give1, !.p1.expanded_total = @ + give1,
                !.p2.territory = @ + give2, !.p2.expanded_total = @ + give2,
                !.neutral_territory = N - give1 - give2,
                !.p1.pending_expands = a1 - give1, !.p2.pending_expands = a2 - give2]

(* Mutant: no contest, the pool is handed out first come first served. *)
allocate_neutral_first_come(E) ==
  LET a1 == E.p1.pending_expands
      a2 == E.p2.pending_expands
      N == E.neutral_territory
      give1 == Min(a1, N)
      give2 == Min(a2, N - give1)
  IN  [E EXCEPT !.p1.territory = @ + give1, !.p1.expanded_total = @ + give1,
                !.p2.territory = @ + give2, !.p2.expanded_total = @ + give2,
                !.neutral_territory = N - give1 - give2,
                !.p1.pending_expands = 0, !.p2.pending_expands = 0]

allocate_neutral(E) ==
  LET a1 == E.p1.pending_expands
      a2 == E.p2.pending_expands
      N == E.neutral_territory
      contested == Min(Min(a1, a2), N)
      r1_unique == a1 - contested
      r2_unique == a2 - contested
      give1 == Min(r1_unique, N - contested)
      give2 == Min(r2_unique, N - contested - give1)
      remaining_neutral == N - contested - give1 - give2
  IN  [E EXCEPT !.p1.territory = @ + give1, !.p1.expanded_total = @ + give1,
                !.p2.territory = @ + give2, !.p2.expanded_total = @ + give2,
                !.neutral_territory = remaining_neutral + contested,
                !.p1.pending_expands = 0, !.p2.pending_expands = 0]

(* Mutant: combat is resolved side by side: agent 1 strikes first and an *)
(* agent 2 left without territory does not strike back.                 *)
resolve_combat_sequential(E) ==
  LET dmg12 == Max(0, E.p1.attack - E.p2.defense)
      loss2 == Min(dmg12, E.p2.territory)
      dmg21 == IF E.p2.territory - loss2 = 0 THEN 0 ELSE Max(0, E.p2.attack - E.p1.defense)
      loss1 == Min(dmg21, E.p1.territory)
  IN  [E EXCEPT !.p1.territory = @ - loss1, !.p2.territory = @ - loss2,
                !.neutral_territory = @ + loss1 + loss2]

(* Mutant: a cell lost in combat is taken off the expansion counter too. *)
resolve_combat_forgets_expansion(E) ==
  LET loss2 == Min(Max(0, E.p1.attack - E.p2.defense), E.p2.territory)
      loss1 == Min(Max(0, E.p2.attack - E.p1.defense), E.p1.territory)
  IN  [E EXCEPT !.p1.territory = @ - loss1, !.p2.territory = @ - loss2,
                !.p1.expanded_total = Max(0, @ - loss1),
                !.p2.expanded_total = Max(0, @ - loss2),
                !.neutral_territory = @ + loss1 + loss2]

(* Mutant: the cells a side loses go to the attacker, not to the pool. *)
resolve_combat_annexes(E) ==
  LET dmg12 == Max(0, E.p1.attack - E.p2.defense)
      dmg21 == Max(0, E.p2.attack - E.p1.defense)
      loss1 == Min(dmg21, E.p1.territory)
      loss2 == Min(dmg12, E.p2.territory)
  IN  [E EXCEPT !.p1.territory = @ - loss1 + loss2, !.p2.territory = @ - loss2 + loss1]

(* Mutant: the cells lost in combat vanish instead of joining the pool. *)
resolve_combat_burns(E) ==
  LET dmg12 == Max(0, E.p1.attack - E.p2.defense)
      dmg21 == Max(0, E.p2.attack - E.p1.defense)
      loss1 == Min(dmg21, E.p1.territory)
      loss2 == Min(dmg12, E.p2.territory)
  IN  [E EXCEPT !.p1.territory = @ - loss1, !.p2.territory = @ - loss2]

resolve_combat(E) ==
  LET dmg12 == Max(0, E.p1.attack - E.p2.defense)
      dmg21 == Max(0, E.p2.attack - E.p1.defense)
      loss1 == Min(dmg21, E.p1.territory)
      loss2 == Min(dmg12, E.p2.territory)
  IN  [E EXCEPT !.p1.territory = @ - loss1, !.p2.territory = @ - loss2,
                !.neutral_territory = @ + loss1 + loss2]

(* Mutant: intel once obtained is kept. *)
update_intel_sticky(E, c1, c2) ==
  [E EXCEPT !.p1.has_enemy_intel = @ \/ Get(c1, "scout", FALSE),
            !.p2.has_enemy_intel = @ \/ Get(c2, "scout", FALSE)]

(* _play_turn step 6: has_enemy_intel = cmd.get("scout", False). *)
update_intel(E, c1, c2) ==
  [E EXCEPT !.p1.has_enemy_intel = Get(c1, "scout", FALSE),
            !.p2.has_enemy_intel = Get(c2, "scout", FALSE)]

(* Mutant: at the cutoff the gold comparison is made before the          *)
(* territories are looked at.                                            *)
check_winner_gold_first(E, is_end) ==
  IF is_end /\ E.p1.gold # E.p2.gold
  THEN IF E.p1.gold > E.p2.gold THEN "player1" ELSE "player2"
  ELSE IF E.p1.territory = 0 /\ E.p2.territory = 0 THEN "draw"
  ELSE IF E.p1.territory = 0 THEN "player2"
  ELSE IF E.p2.territory = 0 THEN "player1"
  ELSE IF is_end THEN "draw" ELSE "None"

(* Mutant: equal gold at the cutoff is not a draw but a win of player 2. *)
check_winner_no_tie(E, is_end) ==
  IF E.p1.territory = 0 /\ E.p2.territory = 0 THEN "draw"
  ELSE IF E.p1.territory = 0 THEN "player2"
  ELSE IF E.p2.territory = 0 THEN "player1"
  ELSE IF is_end
       THEN IF E.p1.gold > E.p2.gold THEN "player1" ELSE "player2"
       ELSE "None"

check_winner(E, is_end) ==
  IF E.p1.territory = 0 /\ E.p2.territory = 0 THEN "draw"
  ELSE IF E.p1.territory = 0 THEN "player2"
  ELSE IF E.p2.territory = 0 THEN "player1"
  ELSE IF is_end
       THEN IF E.p1.gold = E.p2.gold THEN "draw"
            ELSE IF E.p1.gold > E.p2.gold THEN "player1"
            ELSE "player2"
       ELSE "None"

(* Mutant: only the elimination of player 1 stops the loop. *)
winner_declared_first_only(E) == E.p1.territory = 0

winner_declared(E) == check_winner(E, FALSE) # "None"

Result(E, is_end) ==
  [winner |-> check_winner(E, is_end), turns |-> E.turn, neutral |-> E.neutral_territory,
   p1 |-> PublicState(E.p1), p2 |-> PublicState(E.p2)]

(* Before run() returns there is no result. *)
NoResult == [winner |-> "unset"]

NoObs == [k \in {} |-> 0]

(***************************************************************************)
(* The commands the policies return.  MatchCommands drive whole matches,  *)
(* UnitCommands (a wider set: negative fields, sales above the units      *)
(* held, bids above the pool, an unknown key) drive one-turn matches.     *)
(***************************************************************************)
MatchCommands ==
  {EmptyCmd,
   [expand |-> 2, spend_attack |-> -1],
   [expand |-> 1, scout |-> TRUE],
   [spend_attack |-> 9],
   [sell_attack |-> 1, spend_defense |-> 4]}

UnitCommands ==
  {EmptyCmd,
   [expand |-> 1],
   [expand |-> 2],
   [expand |-> 3],
   [expand |-> -1, spend_attack |-> -2, sell_defense |-> -1],
   [scout |-> TRUE],
   [sell_attack |-> 1, expand |-> 1],
   [sell_attack |-> 5, sell_defense |-> 5],
   [sell_defense |-> 1, scout |-> TRUE, spend_attack |-> 9],
   [spend_attack |-> 9],
   [spend_defense |-> 9],
   [spend_attack |-> 4, spend_defense |-> 9],
   [expand |-> 1, scout |-> TRUE, spend_attack |-> 9],
   [expand |-> 1, bogus |-> 1]}

(* Settings of the one-turn matches: every start value and pool in range. *)
UnitSettings ==
  {[GameSettings EXCEPT !.MAX_TURNS = 1, !.START_GOLD = g, !.START_TERRITORY = t,
                        !.NEUTRAL_TERRITORY = n, !.START_ATTACK = a, !.START_DEFENSE = d] :
     g \in 0..MaxStartGold, t \in 0..MaxStartTerritory, n \in 0..MaxNeutral,
     a \in 0..MaxStartUnits, d \in 0..MaxStartUnits}

(***************************************************************************)
(* State after Engine.__init__ (which ends in reset()).                    *)
(***************************************************************************)
ConstructedWith(tr) ==
  /\ eng = Engine(tr)
  /\ pc = "constructed"
  /\ obs1 = NoObs /\ obs2 = NoObs
  /\ cmd1 = EmptyCmd /\ cmd2 = EmptyCmd
  /\ result = NoResult

(* Engine(s1, s2, trace=None, game_settings=cfg) *)
Constructed == ConstructedWith("none")

Init == cfg = GameSettings /\ Constructed

UnitInit == cfg \in UnitSettings /\ Constructed

(* An engine constructed with a trace callback or with trace=None. *)
TraceInit == cfg = GameSettings /\ \E tr \in {"sink", "none"} : ConstructedWith(tr)

(* run(): reset(), then s1.reset(obs) and s2.reset(obs), neither guarded:  *)
(* an exception raised by a policy's reset leaves run().                   *)
RunStart ==
  /\ pc = "constructed"
  /\ eng' = trace(reset_engine(eng), 1)
  /\ \E r1, r2 \in {"ok", "raise"} :
       pc' = IF r1 = "raise" \/ r2 = "raise" THEN "aborted" ELSE "loop"
  /\ UNCHANGED <<cfg, obs1, obs2, cmd1, cmd2, result>>

(* while self.turn < MAX_TURNS: (_handle_gui_events() is True) turn += 1. *)
LoopTest ==
  /\ pc = "loop"
  /\ IF eng.turn < cfg.MAX_TURNS
     THEN eng' = trace(begin_turn(eng), 1) /\ pc' = "economy1"
     ELSE eng' = eng /\ pc' = "result"
  /\ UNCHANGED <<cfg, obs1, obs2, cmd1, cmd2, result>>

(* _play_turn step 1, for one player: income, then apply_upkeep. *)
Economy(pid) ==
  /\ pc = IF pid = 1 THEN "economy1" ELSE "economy2"
  /\ eng' = trace(economy(eng, pid), 1)
  /\ pc' = IF pid = 1 THEN "economy2" ELSE "query"
  /\ UNCHANGED <<cfg, obs1, obs2, cmd1, cmd2, result>>

(* Mutant: player 2 is observed and queried after player 1's command has *)
(* been taken into account.                                               *)
Query_interleaved(Commands) ==
  /\ pc = "query"
  /\ obs1' = prepare_obs(eng, 1)
  /\ \E o1, o2 \in StepOutcomes(Commands) :
       /\ cmd1' = safe_step(o1) /\ cmd2' = safe_step(o2)
       /\ obs2' = prepare_obs(apply_commands(eng, 1, safe_step(o1)), 2)
  /\ pc' = "apply1"
  /\ UNCHANGED <<cfg, eng, result>>

(* _play_turn step 2: both observations, then one step call per policy. *)
Query(Commands) ==
  /\ pc = "query"
  /\ obs1' = prepare_obs(eng, 1)
  /\ obs2' = prepare_obs(eng, 2)
  /\ \E o1, o2 \in StepOutcomes(Commands) :
       /\ cmd1' = safe_step(o1) /\ cmd2' = safe_step(o2)
       /\ eng' = trace(eng, error_lines(o1) + error_lines(o2))
  /\ pc' = "apply1"
  /\ UNCHANGED <<cfg, result>>

(* _play_turn step 3, for one player. *)
ApplyCommands(pid) ==
  /\ pc = IF pid = 1 THEN "apply1" ELSE "apply2"
  /\ LET cmd == IF pid = 1 THEN cmd1 ELSE cmd2
     IN  eng' = trace(apply_commands(eng, pid, cmd), apply_lines(Player(eng, pid), cmd))
  /\ pc' = IF pid = 1 THEN "apply2" ELSE "allocate"
  /\ UNCHANGED <<cfg, obs1, obs2, cmd1, cmd2, result>>

AllocateNeutral ==
  /\ pc = "allocate"
  /\ eng' = trace(allocate_neutral(eng), 1)
  /\ pc' = "combat"
  /\ UNCHANGED <<cfg, obs1, obs2, cmd1, cmd2, result>>

ResolveCombat ==
  /\ pc = "combat"
  /\ eng' = trace(resolve_combat(eng), 1)
  /\ pc' = "intel"
  /\ UNCHANGED <<cfg, obs1, obs2, cmd1, cmd2, result>>

(* _play_turn step 6. *)
UpdateIntel ==
  /\ pc = "intel"
  /\ eng' = update_intel(eng, cmd1, cmd2)
  /\ pc' = "check"
  /\ UNCHANGED <<cfg, obs1, obs2, cmd1, cmd2, result>>

(* if self._winner_declared(): break *)
WinnerTest ==
  /\ pc = "check"
  /\ pc' = IF winner_declared(eng) THEN "result" ELSE "loop"
  /\ UNCHANGED <<cfg, eng, obs1, obs2, cmd1, cmd2, result>>

(* result = self._result(is_end=True); two trace lines; return result *)
ReturnResult ==
  /\ pc = "result"
  /\ result' = Result(eng, TRUE)
  /\ eng' = trace(eng, 2)
  /\ pc' = "finished"
  /\ UNCHANGED <<cfg, obs1, obs2, cmd1, cmd2>>

Turn ==
  \/ RunStart
  \/ LoopTest
  \/ Economy(1)
  \/ Economy(2)
  \/ ApplyCommands(1)
  \/ ApplyCommands(2)
  \/ AllocateNeutral
  \/ ResolveCombat
  \/ UpdateIntel
  \/ WinnerTest
  \/ ReturnResult

Next == Turn \/ Query(MatchCommands)

UnitNext == Turn \/ Query(UnitCommands)

(* Whole matches under the scaled settings. *)
Spec == Init /\ [][Next]_vars

(* Whole matches of an engine with and of an engine without a trace sink. *)
TraceSpec == TraceInit /\ [][Next]_vars

(* One-turn matches from every settings object in range. *)
UnitSpec == UnitInit /\ [][UnitNext]_vars

(* Whole matches, with the scheduling of a single-threaded run: run()    *)
(* keeps executing until it returns or an exception leaves it.           *)
FairSpec == Init /\ [][Next]_vars /\ WF_vars(Next)

(* Whole matches under the scaled settings and under the same settings  *)
(* with no start territory.                                               *)
ZeroInit ==
  /\ cfg \in {GameSettings, [GameSettings EXCEPT !.START_TERRITORY = 0]}
  /\ Constructed

ZeroSpec == ZeroInit /\ [][Next]_vars

(***************************************************************************)
(* Claims                                                                  *)
(***************************************************************************)
Cells(E) == E.p1.territory + E.p2.territory + E.neutral_territory

Winners == {"player1", "player2", "draw"}

(* C1: in every state of a match both agents' gold is >= 0, and so is the *)
(* gold of the issuing agent after each of the six steps of command       *)
(* application (sales, expansion payment, scout, attack and defense       *)
(* spend), for commands with positive and negative fields.                *)
C1_GoldNeverNegative ==
  /\ eng.p1.gold >= 0
  /\ eng.p2.gold >= 0
  /\ pc = "apply1" => \A i \in 1..6 : apply_steps(eng.p1, cmd1)[i].gold >= 0
  /\ pc = "apply2" => \A i \in 1..6 : apply_steps(eng.p2, cmd2)[i].gold >= 0

(* Upkeep of turn 2 has just force-liquidated one of the two attack units *)
(* agent 1 spent all its gold on in turn 1 (a purchase in Spec is of two). *)
C1_Witness ==
  /\ pc = "economy2"
  /\ eng.turn = 2
  /\ eng.p1.attack = 1
  /\ eng.p1.gold = cfg.MAINT_ATK - 1

(* C2: the allocation step conserves the number of cells: the two       *)
(* territories and the neutral pool sum to the same total before and     *)
(* after _allocate_neutral, for every pair of bids and every pool.       *)
C2_AllocationConservesCells ==
  [][pc = "allocate" => Cells(eng') = Cells(eng)]_vars

(* Allocation has granted agent 1 cells and left cells in the pool. *)
C2_Witness ==
  /\ pc = "combat"
  /\ eng.p1.territory > cfg.START_TERRITORY
  /\ eng.neutral_territory > 0
  /\ Get(cmd2, "expand", 0) > 0

(* C3: contested cells stay in the pool: after allocation the pool holds *)
(* at least min(a, b, N) cells, and both grants together are at most     *)
(* N - min(a, b, N).                                                      *)
C3_ContestedStayNeutral ==
  [][pc = "allocate" =>
      (LET a == eng.p1.pending_expands
           b == eng.p2.pending_expands
           N == eng.neutral_territory
           contested == Min(Min(a, b), N)
       IN  (/\ eng'.neutral_territory >= contested
            /\ (eng'.p1.territory - eng.p1.territory)
                 + (eng'.p2.territory - eng.p2.territory) <= N - contested))]_vars

(* Both agents paid for two cells of a pool of two: all are contested,   *)
(* allocation has run and the pool still holds them.                     *)
C3_Witness ==
  /\ pc = "combat"
  /\ cmd1 = [expand |-> 2]
  /\ cmd2 = [expand |-> 3]
  /\ cfg.START_GOLD + cfg.START_TERRITORY * cfg.GOLD_PER_LAND = 5
  /\ cfg.START_ATTACK = 0 /\ cfg.START_DEFENSE = 0
  /\ eng.p1.gold = 0 /\ eng.p2.gold = 0
  /\ eng.neutral_territory = 2

(* C4: combat conserves cells and gives none to the opponent: neither    *)
(* territory grows in _resolve_combat, and the pool grows by exactly the *)
(* two losses.                                                            *)
C4_CombatLossesGoNeutral ==
  [][pc = "combat" =>
       (/\ eng'.p1.territory <= eng.p1.territory
        /\ eng'.p2.territory <= eng.p2.territory
        /\ eng'.neutral_territory - eng.neutral_territory
             = (eng.p1.territory - eng'.p1.territory)
               + (eng.p2.territory - eng'.p2.territory))]_vars

(* Combat has run with agent 1's attack above agent 2's defense and the  *)
(* pool has grown by the cells taken from agent 2, which still has some. *)
C4_Witness ==
  /\ pc = "intel"
  /\ eng.p1.attack > eng.p2.defense
  /\ eng.p2.attack <= eng.p1.defense
  /\ eng.p2.territory > 0
  /\ eng.p2.territory < cfg.START_TERRITORY
  /\ eng.neutral_territory > cfg.NEUTRAL_TERRITORY

(* C5: the order of command application does not matter: the state after *)
(* the engine's step (agent 1's command applied first), completed by     *)
(* agent 2's command, allocation and combat, is the state reached when   *)
(* agent 2's command is applied before agent 1's.                        *)
C5_OrderIndependent ==
  [][pc = "apply1" =>
       resolve_combat(allocate_neutral(apply_commands(eng', 2, cmd2)))
         = resolve_combat(allocate_neutral(
             apply_commands(apply_commands(eng, 2, cmd2), 1, cmd1)))]_vars

(* Both commands have been applied, both agents hold a paid bid and the  *)
(* pool cannot serve both bids.                                           *)
C5_Witness ==
  /\ pc = "allocate"
  /\ eng.p1.pending_expands > 0
  /\ eng.p2.pending_expands > 0
  /\ eng.p1.pending_expands + eng.p2.pending_expands > eng.neutral_territory
  /\ eng.neutral_territory > 0

(* C6: apply_upkeep never leaves gold negative and lowers the defense    *)
(* count only when it has brought the attack count to 0.                 *)
C6_UpkeepAttackFirst ==
  [][(pc = "economy1" \/ pc = "economy2") =>
      (LET pid == IF pc = "economy1" THEN 1 ELSE 2
           before == Player(eng, pid)
           after == Player(eng', pid)
       IN  (/\ before.gold >= 0
            /\ after.gold >= 0
            /\ after.defense < before.defense => after.attack = 0))]_vars

(* Upkeep of the first turn has liquidated every attack unit agent 1     *)
(* started with and then some of its defense units.                      *)
C6_Witness ==
  /\ pc = "economy2"
  /\ eng.turn = 1
  /\ cfg.START_ATTACK > 0
  /\ eng.p1.attack = 0
  /\ eng.p1.defense < cfg.START_DEFENSE

(* C7: no policy failure aborts the match: whatever the policies' calls  *)
(* do (raise included, in reset as in step), run() is not left by an     *)
(* exception.                                                             *)
C7_PolicyFailureNeverAborts == pc # "aborted"

(* C8: every match terminates: run() eventually returns a result, after  *)
(* at most MAX_TURNS turns and with a winner that is player1, player2 or *)
(* draw.                                                                  *)
C8_EveryMatchFinishes ==
  <>(/\ pc = "finished"
     /\ result.turns <= cfg.MAX_TURNS
     /\ result.winner \in Winners)

(* What _check_winner must answer by elimination, "None" if nobody is    *)
(* eliminated.                                                            *)
ByElimination(t1, t2) ==
  IF t1 = 0 /\ t2 = 0 THEN "draw"
  ELSE IF t1 = 0 THEN "player2"
  ELSE IF t2 = 0 THEN "player1"
  ELSE "None"

(* What the gold comparison must answer. *)
ByGold(g1, g2) ==
  IF g1 > g2 THEN "player1" ELSE IF g2 > g1 THEN "player2" ELSE "draw"

(* C9: winner by elimination: with both territories zero the winner is   *)
(* draw, with only agent 1's zero it is player2, with only agent 2's     *)
(* zero it is player1, whatever the gold and whether or not the cutoff   *)
(* is reached; the result run() returns follows the same rule.           *)
C9_WinnerByElimination ==
  /\ (eng.p1.territory = 0 \/ eng.p2.territory = 0) =>
       /\ check_winner(eng, FALSE) = ByElimination(eng.p1.territory, eng.p2.territory)
       /\ check_winner(eng, TRUE) = ByElimination(eng.p1.territory, eng.p2.territory)
  /\ (pc = "finished" /\ (result.p1.territory = 0 \/ result.p2.territory = 0)) =>
       result.winner = ByElimination(result.p1.territory, result.p2.territory)

(* A match has finished with agent 1 eliminated although it holds more   *)
(* gold than agent 2, which still has territory.                         *)
C9_Witness ==
  /\ pc = "finished"
  /\ result.p1.territory = 0
  /\ result.p2.territory > 0
  /\ result.p1.gold > result.p2.gold

(* C10: with both territories nonzero no winner is declared before the   *)
(* cutoff (None), and at the cutoff the agent with strictly more gold    *)
(* wins, equal gold being a draw; a match that returns with both         *)
(* territories nonzero has reached the cutoff and is decided by gold.    *)
C10_WinnerByGoldAtCutoff ==
  /\ (eng.p1.territory # 0 /\ eng.p2.territory # 0) =>
       /\ check_winner(eng, FALSE) = "None"
       /\ ~winner_declared(eng)
       /\ check_winner(eng, TRUE) = ByGold(eng.p1.gold, eng.p2.gold)
  /\ (pc = "finished" /\ result.p1.territory # 0 /\ result.p2.territory # 0) =>
       /\ result.turns = cfg.MAX_TURNS
       /\ result.winner = ByGold(result.p1.gold, result.p2.gold)

(* A match has run to the cutoff with both agents holding territory and  *)
(* the same gold although their units differ.                            *)
C10_Witness ==
  /\ pc = "finished"
  /\ result.turns = cfg.MAX_TURNS
  /\ result.p1.territory # 0
  /\ result.p2.territory # 0
  /\ result.p1.gold = result.p2.gold
  /\ result.p1.defense # result.p2.defense

(* C11: combat is simultaneous: each side loses min(max(0, the other's   *)
(* attack - its own defense), its territory), both damages taken from    *)
(* the attack and defense values before combat, and combat changes no    *)
(* attack or defense value.                                               *)
C11_CombatSimultaneous ==
  [][pc = "combat" =>
       (/\ eng'.p2.territory
             = eng.p2.territory
               - Min(Max(0, eng.p1.attack - eng.p2.defense), eng.p2.territory)
        /\ eng'.p1.territory
             = eng.p1.territory
               - Min(Max(0, eng.p2.attack - eng.p1.defense), eng.p1.territory)
        /\ eng'.p1.attack = eng.p1.attack /\ eng'.p1.defense = eng.p1.defense
        /\ eng'.p2.attack = eng.p2.attack /\ eng'.p2.defense = eng.p2.defense)]_vars

(* Combat has run with each side's attack above the other's defense and  *)
(* has eliminated both sides in the same step.                            *)
C11_Witness ==
  /\ pc = "intel"
  /\ eng.p1.attack > eng.p2.defense
  /\ eng.p2.attack > eng.p1.defense
  /\ cfg.START_TERRITORY > 0
  /\ eng.p1.territory = 0
  /\ eng.p2.territory = 0

(* C12: equal bids grant nothing: when both pending bids are equal,      *)
(* allocation changes neither territory and leaves the pool as it was.   *)
C12_EqualBidsGrantNothing ==
  [][(pc = "allocate" /\ eng.p1.pending_expands = eng.p2.pending_expands) =>
       (/\ eng'.p1.territory = eng.p1.territory
        /\ eng'.p2.territory = eng.p2.territory
        /\ eng'.neutral_territory = eng.neutral_territory)]_vars

(* Both agents have paid for exactly one cell of a non-empty pool and    *)
(* allocation has run.                                                    *)
C12_Witness ==
  /\ pc = "combat"
  /\ cmd1 = [expand |-> 1]
  /\ cmd2 = [expand |-> 1, bogus |-> 1]
  /\ cfg.START_ATTACK = 0 /\ cfg.START_DEFENSE = 0
  /\ eng.p1.gold = cfg.START_GOLD + cfg.START_TERRITORY * cfg.GOLD_PER_LAND - cfg.EXPAND_BASE
  /\ eng.p2.gold = eng.p1.gold
  /\ eng.neutral_territory > 0

(* C13: an uncontested bid: when one pending bid is 0 and the other is   *)
(* a, the bidder gains min(a, N) cells, the pool becomes N - min(a, N)   *)
(* and the other agent's territory is unchanged, whichever agent bids.   *)
C13_UncontestedBid ==
  [][pc = "allocate" =>
      (LET a1 == eng.p1.pending_expands
           a2 == eng.p2.pending_expands
           N == eng.neutral_territory
       IN  (/\ a2 = 0 =>
                 /\ eng'.p1.territory = eng.p1.territory + Min(a1, N)
                 /\ eng'.p2.territory = eng.p2.territory
                 /\ eng'.neutral_territory = N - Min(a1, N)
            /\ a1 = 0 =>
                 /\ eng'.p2.territory = eng.p2.territory + Min(a2, N)
                 /\ eng'.p1.territory = eng.p1.territory
                 /\ eng'.neutral_territory = N - Min(a2, N)))]_vars

(* Agent 1 issued no command, agent 2 bid alone and allocation has       *)
(* granted it a cell.                                                     *)
C13_Witness ==
  /\ pc = "combat"
  /\ cmd1 = EmptyCmd
  /\ Get(cmd2, "expand", 0) > 0
  /\ eng.p1.territory = cfg.START_TERRITORY
  /\ eng.p2.territory > cfg.START_TERRITORY

(* The allocation inputs with the two agents' bids exchanged. *)
SwapBids(E) ==
  [E EXCEPT !.p1.pending_expands = E.p2.pending_expands,
            !.p2.pending_expands = E.p1.pending_expands]

(* Both unique demands (bid minus contested) exceed the remaining pool. *)
BothUniqueExceed(E) ==
  LET contested == Min(Min(E.p1.pending_expands, E.p2.pending_expands), E.neutral_territory)
      remaining == E.neutral_territory - contested
  IN  /\ E.p1.pending_expands - contested > remaining
      /\ E.p2.pending_expands - contested > remaining

(* What allocation of E would grant to player pid. *)
Grant(E, pid) == Player(allocate_neutral(E), pid).territory - Player(E, pid).territory

(* C14 as stated: where two different bids both leave a unique demand   *)
(* above the remaining pool, agent 1 being served first makes the        *)
(* outcome asymmetric: exchanging the two bids does not simply exchange  *)
(* the two grants.                                                        *)
C14_TieBreakAsymmetric ==
  [][(/\ pc = "allocate"
      /\ BothUniqueExceed(eng)
      /\ eng.p1.pending_expands # eng.p2.pending_expands) =>
       ~(/\ Grant(SwapBids(eng), 1) = eng'.p2.territory - eng.p2.territory
         /\ Grant(SwapBids(eng), 2) = eng'.p1.territory - eng.p1.territory)]_vars

(* C14 amended: the serving order never shows: in every allocation,      *)
(* exchanging the two bids exactly exchanges the two grants and leaves   *)
(* the same pool, and where both unique demands exceed the remaining     *)
(* pool that pool is empty and neither agent is granted a cell.          *)
C14_SwapExchangesGrants ==
  [][pc = "allocate" =>
       (/\ Grant(SwapBids(eng), 1) = eng'.p2.territory - eng.p2.territory
        /\ Grant(SwapBids(eng), 2) = eng'.p1.territory - eng.p1.territory
        /\ allocate_neutral(SwapBids(eng)).neutral_territory = eng'.neutral_territory
        /\ BothUniqueExceed(eng) =>
             /\ eng'.p1.territory = eng.p1.territory
             /\ eng'.p2.territory = eng.p2.territory)]_vars

(* Allocation has run on different bids that both exceeded the pool:     *)
(* agent 1 paid for two cells, agent 2 for one, and the pool was empty.  *)
C14_Witness ==
  /\ pc = "combat"
  /\ cmd1 = [expand |-> 2]
  /\ cmd2 = [expand |-> 1]
  /\ cfg.NEUTRAL_TERRITORY = 0
  /\ cfg.START_ATTACK = 0 /\ cfg.START_DEFENSE = 0
  /\ cfg.START_GOLD + cfg.START_TERRITORY * cfg.GOLD_PER_LAND
       = 2 * cfg.EXPAND_BASE + cfg.EXPAND_STEP
  /\ eng.p1.gold = 0
  /\ eng.p2.gold = cfg.EXPAND_BASE + cfg.EXPAND_STEP

(* C15: intel only when paid for: the has_enemy_intel flag that the turn *)
(* sets for an agent is set only if its command requested scout and the  *)
(* scout cost was affordable, and deducted, at the scouting step.        *)
C15_IntelOnlyWhenPaid ==
  /\ pc = "apply1" =>
       (update_intel(eng, cmd1, cmd2).p1.has_enemy_intel =>
          /\ Get(cmd1, "scout", FALSE)
          /\ apply_steps(eng.p1, cmd1)[3].gold >= cfg.SCOUT_COST
          /\ apply_steps(eng.p1, cmd1)[4].gold
               = apply_steps(eng.p1, cmd1)[3].gold - cfg.SCOUT_COST)
  /\ pc = "apply2" =>
       (update_intel(eng, cmd1, cmd2).p2.has_enemy_intel =>
          /\ Get(cmd2, "scout", FALSE)
          /\ apply_steps(eng.p2, cmd2)[3].gold >= cfg.SCOUT_COST
          /\ apply_steps(eng.p2, cmd2)[4].gold
               = apply_steps(eng.p2, cmd2)[3].gold - cfg.SCOUT_COST)

(* The private attributes of the opponent. *)
Private == {"gold", "attack", "defense"}

(* C16: one-turn intel lag: the observation handed to an agent in a turn *)
(* shows the opponent's gold, attack and defense exactly when the        *)
(* agent's command of the turn before asked for scout, never because of  *)
(* the command it issues in this turn, and then it shows the opponent's  *)
(* values as they are when the observation is built.                     *)
C16_OneTurnIntelLag ==
  [][pc = "query" =>
       (/\ \A k \in Private : (k \in DOMAIN obs1'.enemy) <=> Get(cmd1, "scout", FALSE)
        /\ \A k \in Private : (k \in DOMAIN obs2'.enemy) <=> Get(cmd2, "scout", FALSE)
        /\ Get(cmd1, "scout", FALSE) =>
             /\ obs1'.enemy.gold = eng.p2.gold
             /\ obs1'.enemy.attack = eng.p2.attack
             /\ obs1'.enemy.defense = eng.p2.defense
        /\ Get(cmd2, "scout", FALSE) =>
             /\ obs2'.enemy.gold = eng.p1.gold
             /\ obs2'.enemy.attack = eng.p1.attack
             /\ obs2'.enemy.defense = eng.p1.defense)]_vars

(* Turn 2: agent 1 scouts now and sees no private attribute, agent 2     *)
(* scouted in turn 1, does not scout now and sees them.                  *)
C16_Witness ==
  /\ pc = "apply1"
  /\ eng.turn = 2
  /\ Get(cmd1, "scout", FALSE)
  /\ DOMAIN obs1.enemy = {"territory"}
  /\ ~Get(cmd2, "scout", FALSE)
  /\ Private \subseteq DOMAIN obs2.enemy

(* State E with the private attributes of pid's opponent replaced. *)
WithOpponent(E, pid, g, a, d) ==
  SetPlayer(E, 3 - pid, [Player(E, 3 - pid) EXCEPT !.gold = g, !.attack = a, !.defense = d])

(* C17: noninterference: the observation handed to an agent without      *)
(* intel is the one it would be handed in any state that differs only in *)
(* the opponent's gold, attack and defense; the opponent's territory is  *)
(* in every observation.                                                  *)
C17_NoIntelNoLeak ==
  [][pc = "query" =>
       (/\ ~eng.p1.has_enemy_intel =>
             \A g, a, d \in 0..MaxAlt : obs1' = prepare_obs(WithOpponent(eng, 1, g, a, d), 1)
        /\ ~eng.p2.has_enemy_intel =>
             \A g, a, d \in 0..MaxAlt : obs2' = prepare_obs(WithOpponent(eng, 2, g, a, d), 2)
        /\ obs1'.enemy.territory = eng.p2.territory
        /\ obs2'.enemy.territory = eng.p1.territory)]_vars

(* Agent 1 has been handed an observation without intel while agent 2    *)
(* held gold, attack units and defense units.                            *)
C17_Witness ==
  /\ pc = "apply1"
  /\ ~eng.p1.has_enemy_intel
  /\ eng.p2.gold > 0 /\ eng.p2.attack > 0 /\ eng.p2.defense > 0
  /\ obs1.enemy = [territory |-> eng.p2.territory]

(* C18: allocation leaves the gold of both agents as it was: the bids   *)
(* were charged when the commands were applied and nothing is refunded,  *)
(* also when every cell bid for is contested or the pool is empty.       *)
C18_AllocationKeepsGold ==
  [][pc = "allocate" =>
       (/\ eng'.p1.gold = eng.p1.gold
        /\ eng'.p2.gold = eng.p2.gold)]_vars

(* Both agents spent all their gold on two cells each, every cell was    *)
(* contested, allocation has run and granted nothing.                    *)
C18_Witness ==
  /\ pc = "combat"
  /\ cmd1 = [expand |-> 2]
  /\ cmd2 = [expand |-> 2]
  /\ cfg.START_ATTACK = 0 /\ cfg.START_DEFENSE = 0
  /\ cfg.START_GOLD + cfg.START_TERRITORY * cfg.GOLD_PER_LAND
       = 2 * cfg.EXPAND_BASE + cfg.EXPAND_STEP
  /\ eng.p1.gold = 0 /\ eng.p2.gold = 0
  /\ eng.p1.territory = cfg.START_TERRITORY
  /\ eng.p2.territory = cfg.START_TERRITORY

(* The sum of the prices of the first k cells of a batch bought by pl. *)
RECURSIVE ExpandSum(_, _)
ExpandSum(pl, k) ==
  IF k <= 0 THEN 0
  ELSE ExpandSum(pl, k - 1) + cfg.EXPAND_BASE + cfg.EXPAND_STEP * (pl.expanded_total + k - 1)

(* after is what a call for wanted cells may leave of before. *)
PaidFor(before, after, wanted) ==
  LET k == after.pending_expands
  IN  /\ k \in 0..wanted
      /\ ExpandSum(before, k) <= before.gold
      /\ \A j \in (k + 1)..wanted : ExpandSum(before, j) > before.gold
      /\ after = [before EXCEPT !.gold = @ - ExpandSum(before, k), !.pending_expands = k]
      /\ k < wanted =>
           after.gold < cfg.EXPAND_BASE + cfg.EXPAND_STEP * (before.expanded_total + k)

(* C19: pay_for_expands(wanted) buys the largest k <= wanted whose       *)
(* prices base + step * (expanded_total + i), i < k, sum to at most the  *)
(* gold in hand, deducts exactly that sum and sets the pending bid to k; *)
(* if k < wanted the gold left is below the price of the next cell.      *)
C19_PayForExpandsGreedy ==
  /\ pc = "apply1" =>
       /\ Get(cmd1, "expand", 0) > 0 =>
            PaidFor(apply_steps(eng.p1, cmd1)[2], apply_steps(eng.p1, cmd1)[3],
                    Get(cmd1, "expand", 0))
       /\ \A w \in 0..MaxWanted : PaidFor(eng.p1, pay_for_expands(eng.p1, w), w)
  /\ pc = "apply2" =>
       /\ Get(cmd2, "expand", 0) > 0 =>
            PaidFor(apply_steps(eng.p2, cmd2)[2], apply_steps(eng.p2, cmd2)[3],
                    Get(cmd2, "expand", 0))
       /\ \A w \in 0..MaxWanted : PaidFor(eng.p2, pay_for_expands(eng.p2, w), w)

(* Agent 1 asked for two cells after an earlier expansion and its gold   *)
(* paid for one only.                                                     *)
C19_Witness ==
  /\ pc = "apply2"
  /\ Get(cmd1, "expand", 0) = 2
  /\ eng.p1.expanded_total > 0
  /\ eng.p1.pending_expands = 1

(* What a call is charged for its (n+1)-th cell, n + 1 cells being bought. *)
ChargedFor(pl, n) == pay_for_expands(pl, n).gold - pay_for_expands(pl, n + 1).gold

(* The batches of player pl: each cell dearer than the one before. *)
BatchRises(pl, cmd) ==
  LET before == apply_steps(pl, cmd)[2]
      k == apply_steps(pl, cmd)[3].pending_expands
  IN  /\ \A n \in 0..MaxWanted : expand_price(before, n + 1) > expand_price(before, n)
      /\ \A n \in 1..(k - 1) : ChargedFor(before, n) > ChargedFor(before, n - 1)

(* C20: with base and step above 0 the price of a batch rises strictly:  *)
(* the (n+1)-th cell of one pay_for_expands call is charged more than    *)
(* the n-th.                                                              *)
C20_BatchPriceRises ==
  (cfg.EXPAND_BASE > 0 /\ cfg.EXPAND_STEP > 0) =>
    /\ pc = "apply1" => BatchRises(eng.p1, cmd1)
    /\ pc = "apply2" => BatchRises(eng.p2, cmd2)

(* Agent 1 has paid for a batch of two cells after an earlier expansion. *)
C20_Witness ==
  /\ pc = "apply2"
  /\ eng.p1.expanded_total > 0
  /\ eng.p1.pending_expands = 2

(* The price of n units bought one at a time from c units held. *)
RECURSIVE UnitSum(_, _, _, _)
UnitSum(base, slope, c, n) ==
  IF n <= 0 THEN 0 ELSE UnitSum(base, slope, c, n - 1) + base + slope * (c + n - 1)

(* after is before with n attack units bought greedily within limit. *)
BoughtAttack(before, after, limit) ==
  LET n == after.attack - before.attack
      spent == before.gold - after.gold
  IN  /\ n >= 0
      /\ spent = UnitSum(cfg.ATK_BASE, cfg.ATK_K, before.attack, n)
      /\ spent <= limit
      /\ limit - spent < cfg.ATK_BASE + cfg.ATK_K * after.attack
      /\ after = [before EXCEPT !.gold = @ - spent, !.attack = @ + n]

BoughtDefense(before, after, limit) ==
  LET n == after.defense - before.defense
      spent == before.gold - after.gold
  IN  /\ n >= 0
      /\ spent = UnitSum(cfg.DEF_BASE, cfg.DEF_K, before.defense, n)
      /\ spent <= limit
      /\ limit - spent < cfg.DEF_BASE + cfg.DEF_K * after.defense
      /\ after = [before EXCEPT !.gold = @ - spent, !.defense = @ + n]

(* The purchases of player pl: every limit up to its gold, and the two   *)
(* spend steps of the command applied.                                    *)
GreedyPurchases(pl, cmd) ==
  LET s == apply_steps(pl, cmd)
  IN  /\ \A limit \in 0..pl.gold :
           /\ BoughtAttack(pl, buy_attack(pl, limit), limit)
           /\ BoughtDefense(pl, buy_defense(pl, limit), limit)
      /\ BoughtAttack(s[4], s[5], Min(Max(0, Get(cmd, "spend_attack", 0)), s[4].gold))
      /\ BoughtDefense(s[5], s[6], Min(Max(0, Get(cmd, "spend_defense", 0)), s[5].gold))

HalfFloor(base) == CHOOSE r \in 0..base : 2 * r <= base /\ base < 2 * r + 2

(* The units sold on a request of req with held units in hand. *)
Sold(req, held) == IF req <= 0 THEN 0 ELSE IF req >= held THEN held ELSE req

(* The sales of player pl: every request in -1..MaxWanted, and the two   *)
(* sale steps of the command applied.                                     *)
FlatRefunds(pl, cmd) ==
  LET s == apply_steps(pl, cmd)
      ua == Sold(Get(cmd, "sell_attack", 0), pl.attack)
      ud == Sold(Get(cmd, "sell_defense", 0), pl.defense)
  IN  /\ \A req \in (-1)..MaxWanted :
           /\ refund_attack(pl, req)
                = [pl EXCEPT !.attack = @ - Sold(req, pl.attack),
                             !.gold = @ + Sold(req, pl.attack) * HalfFloor(cfg.ATK_BASE)]
           /\ refund_defense(pl, req)
                = [pl EXCEPT !.defense = @ - Sold(req, pl.defense),
                             !.gold = @ + Sold(req, pl.defense) * HalfFloor(cfg.DEF_BASE)]
      /\ s[1] = [pl EXCEPT !.attack = @ - ua, !.gold = @ + ua * HalfFloor(cfg.ATK_BASE)]
      /\ s[2] = [s[1] EXCEPT !.defense = @ - ud, !.gold = @ + ud * HalfFloor(cfg.DEF_BASE)]
      /\ s[2].attack >= 0 /\ s[2].defense >= 0

(* C22: a sale refunds floor(base price / 2) gold per unit sold,         *)
(* whatever the unit count, and the units sold are the request clamped   *)
(* to 0 and to the units held, so the unit count never goes below 0.     *)
C22_FlatRefundClampedSale ==
  /\ pc = "apply1" => FlatRefunds(eng.p1, cmd1)
  /\ pc = "apply2" => FlatRefunds(eng.p2, cmd2)

(* Agent 1 held two attack units, asked to sell five and has sold two,   *)
(* each for half the base price.                                          *)
C22_Witness ==
  /\ pc = "apply2"
  /\ cmd1 = [sell_attack |-> 5, sell_defense |-> 5]
  /\ obs1.my.attack = 2
  /\ obs1.my.defense = 0
  /\ eng.p1.attack = 0
  /\ eng.p1.gold = obs1.my.gold + 2 * (cfg.ATK_BASE \div 2)

(* after is what the six steps leave of pl when each step is paid from   *)
(* the gold the steps before it left, in the order sales, expansion,     *)
(* scout, attack spend, defense spend.                                    *)
InOrder(pl, after, cmd) ==
  LET ua == Sold(Get(cmd, "sell_attack", 0), pl.attack)
      ud == Sold(Get(cmd, "sell_defense", 0), pl.defense)
      g2 == pl.gold + ua * HalfFloor(cfg.ATK_BASE) + ud * HalfFloor(cfg.DEF_BASE)
      wanted == Max(0, Get(cmd, "expand", 0))
      k == after.pending_expands
      g3 == g2 - ExpandSum(pl, k)
      g4 == IF Get(cmd, "scout", FALSE) /\ g3 >= cfg.SCOUT_COST THEN g3 - cfg.SCOUT_COST ELSE g3
      na == after.attack - (pl.attack - ua)
      sa == UnitSum(cfg.ATK_BASE, cfg.ATK_K, pl.attack - ua, na)
      la == Min(Max(0, Get(cmd, "spend_attack", 0)), g4)
      nd == after.defense - (pl.defense - ud)
      sd == UnitSum(cfg.DEF_BASE, cfg.DEF_K, pl.defense - ud, nd)
      ld == Min(Max(0, Get(cmd, "spend_defense", 0)), g4 - sa)
  IN  /\ k \in 0..wanted
      /\ ExpandSum(pl, k) <= g2
      /\ k < wanted => g3 < cfg.EXPAND_BASE + cfg.EXPAND_STEP * (pl.expanded_total + k)
      /\ na >= 0 /\ sa <= la /\ la - sa < cfg.ATK_BASE + cfg.ATK_K * after.attack
      /\ nd >= 0 /\ sd <= ld /\ ld - sd < cfg.DEF_BASE + cfg.DEF_K * after.defense
      /\ after.gold = g4 - sa - sd
      /\ after.territory = pl.territory
      /\ after.expanded_total = pl.expanded_total

(* C23: the command steps of an agent are applied in the order attack    *)
(* sales, defense sales, expansion payment, scout, attack spend, defense *)
(* spend, each step seeing the gold the steps before it left: refunds    *)
(* pay for expansion, scout is paid from what expansion left, and the    *)
(* defense spend is clamped to what the attack purchase left.            *)
C23_FixedStepOrder ==
  [][(pc = "apply1" => InOrder(eng.p1, eng'.p1, cmd1))
     /\ (pc = "apply2" => InOrder(eng.p2, eng'.p2, cmd2))]_vars

(* Agent 1 could not afford a cell, sold one attack unit and paid for    *)
(* the cell with the refund.                                              *)
C23_Witness ==
  /\ pc = "apply2"
  /\ cmd1 = [sell_attack |-> 1, expand |-> 1]
  /\ obs1.my.attack >= 1
  /\ obs1.my.gold < cfg.EXPAND_BASE
  /\ eng.p1.attack = obs1.my.attack - 1
  /\ eng.p1.pending_expands = 1

(* The recognized command fields. *)
Recognized == {"sell_attack", "sell_defense", "expand", "spend_attack", "spend_defense", "scout"}

(* cmd without its unrecognized fields, and cmd with one more of them. *)
OnlyRecognized(cmd) == [k \in DOMAIN cmd \cap Recognized |-> cmd[k]]

WithUnknown(cmd) == [k \in DOMAIN cmd \cup {"gold"} |-> IF k = "gold" THEN 99 ELSE cmd[k]]

(* Player pid's command step with and without unrecognized fields. *)
UnknownIgnored(pid, cmd) ==
  /\ eng' = apply_commands(eng, pid, OnlyRecognized(cmd))
  /\ eng' = apply_commands(eng, pid, WithUnknown(cmd))
  /\ update_intel(eng, WithUnknown(cmd), WithUnknown(cmd))
       = update_intel(eng, OnlyRecognized(cmd), OnlyRecognized(cmd))
  /\ cmd = EmptyCmd =>
       /\ Player(eng', pid).gold = Player(eng, pid).gold
       /\ Player(eng', pid).attack = Player(eng, pid).attack
       /\ Player(eng', pid).defense = Player(eng, pid).defense
       /\ Player(eng', pid).territory = Player(eng, pid).territory
       /\ Player(eng', pid).pending_expands = 0

(* C24: unrecognized command fields are ignored and missing fields are   *)
(* 0 or false: a command step leaves the match state it would leave      *)
(* without the unknown keys of the command and with one more of them,    *)
(* and an empty command changes none of the agent's gold, attack,        *)
(* defense or territory and leaves its pending bid at 0.                 *)
C24_UnknownFieldsIgnored ==
  [][(pc = "apply1" => UnknownIgnored(1, cmd1))
     /\ (pc = "apply2" => UnknownIgnored(2, cmd2))]_vars

(* Agent 1's command had an unknown key and its expansion was paid for. *)
C24_Witness ==
  /\ pc = "apply2"
  /\ cmd1 = [expand |-> 1, bogus |-> 1]
  /\ eng.p1.pending_expands = 1
  /\ eng.p1.gold = obs1.my.gold - cfg.EXPAND_BASE

(* C25: one snapshot per turn: after k completed turns the history holds *)
(* the initial snapshot and k per-turn snapshots, the snapshot of turn i *)
(* carrying the number i.                                                 *)
C25_OneSnapshotPerTurn ==
  (pc = "check" \/ pc = "loop" \/ pc = "result" \/ pc = "finished") =>
    /\ Len(eng.history) = eng.turn + 1
    /\ \A i \in 1..Len(eng.history) : eng.history[i].turn = i - 1

(* The observation of a turn follows the one of the turn before. *)
NextObs(old, new) == new.turn = eng.turn /\ (old = NoObs \/ old.turn = eng.turn - 1)

(* C26: each policy is queried once per turn and both observations are   *)
(* built and both policies queried before any command is applied: the    *)
(* query step leaves the engine as it is and hands both agents the       *)
(* observation of that state, whatever the other agent answers, and no   *)
(* other step of the turn changes an observation or a command.           *)
C26_QueriesBeforeCommands ==
  [][(pc = "query" =>
        /\ eng' = eng
        /\ obs1' = prepare_obs(eng, 1) /\ NextObs(obs1, obs1')
        /\ obs2' = prepare_obs(eng, 2) /\ NextObs(obs2, obs2'))
     /\ (pc # "query" => UNCHANGED <<obs1, obs2, cmd1, cmd2>>)]_vars

(* Turn 2: agent 2 has intel and has been shown the gold agent 1 holds   *)
(* before agent 1's command, which spends it on attack, is applied.      *)
C26_Witness ==
  /\ pc = "apply1"
  /\ eng.turn = 2
  /\ eng.p2.has_enemy_intel
  /\ cmd1 = [spend_attack |-> 9]
  /\ eng.p1.gold >= attack_price(eng.p1)
  /\ obs2.enemy.gold = eng.p1.gold

(* C28: the expansion counter of each agent never decreases: allocation *)
(* raises it by exactly the cells granted, and no other step changes it, *)
(* combat with territory lost included.                                   *)
C28_ExpandedTotalMonotone ==
  [][(/\ eng'.p1.expanded_total >= eng.p1.expanded_total
      /\ eng'.p2.expanded_total >= eng.p2.expanded_total
      /\ pc = "allocate" =>
           /\ eng'.p1.expanded_total - eng.p1.expanded_total
                = eng'.p1.territory - eng.p1.territory
           /\ eng'.p2.expanded_total - eng.p2.expanded_total
                = eng'.p2.territory - eng.p2.territory
      /\ pc # "allocate" =>
           /\ eng'.p1.expanded_total = eng.p1.expanded_total
           /\ eng'.p2.expanded_total = eng.p2.expanded_total)]_vars

(* Agent 1 has been granted cells and has then lost territory in combat. *)
C28_Witness ==
  /\ pc = "intel"
  /\ eng.p1.expanded_total > 0
  /\ eng.p2.attack > eng.p1.defense
  /\ eng.p1.territory < cfg.START_TERRITORY + eng.p1.expanded_total

(* C29: pending bids do not carry over: after every allocation, hence at *)
(* the start and at the end of every turn, both pending bids are 0; a    *)
(* bid is pending only from the agent's command step to the allocation.  *)
C29_NoPendingCarryOver ==
  /\ (pc # "apply2" /\ pc # "allocate") =>
       (eng.p1.pending_expands = 0 /\ eng.p2.pending_expands = 0)
  /\ pc = "apply2" => eng.p2.pending_expands = 0

(* Turn 2: agent 1 paid for cells, allocation has granted it none and    *)
(* its bid is back at 0.                                                  *)
C29_Witness ==
  /\ pc = "combat"
  /\ eng.turn = 2
  /\ Get(cmd1, "expand", 0) = 2
  /\ eng.p1.gold < obs1.my.gold
  /\ eng.p1.territory = obs1.my.territory
  /\ eng.p1.pending_expands = 0

(* The unit counts and the territory of a player are not negative. *)
NonNegative(pl) == pl.attack >= 0 /\ pl.defense >= 0 /\ pl.territory >= 0

(* C30: from a non-negative configuration, attack, defense and territory *)
(* of each agent and the neutral pool are >= 0 in every state, and after *)
(* each step of a command, whatever the commands.                        *)
C30_CountsNeverNegative ==
  /\ NonNegative(eng.p1)
  /\ NonNegative(eng.p2)
  /\ eng.neutral_territory >= 0
  /\ pc = "apply1" => \A i \in 1..6 : NonNegative(apply_steps(eng.p1, cmd1)[i])
  /\ pc = "apply2" => \A i \in 1..6 : NonNegative(apply_steps(eng.p2, cmd2)[i])

(* Agent 1 asked to sell more units than it held and holds none, agent 2 *)
(* paid for a cell of an empty pool and was granted none.                *)
C30_Witness ==
  /\ pc = "combat"
  /\ cmd1 = [sell_attack |-> 5, sell_defense |-> 5]
  /\ obs1.my.defense >= 1
  /\ eng.p1.attack = 0 /\ eng.p1.defense = 0
  /\ cmd2 = [expand |-> 3]
  /\ cfg.NEUTRAL_TERRITORY = 0
  /\ eng.p2.gold < obs2.my.gold
  /\ eng.p2.territory = obs2.my.territory
  /\ eng.neutral_territory = 0

(* The same engine constructed the other way: without its sink, or with *)
(* a sink it did not have.                                                *)
OtherTrace(E) == [E EXCEPT !.trace = IF @ = "sink" THEN "none" ELSE "sink", !.sunk = 0]

(* The match state of an engine: all of it but the sink and its lines. *)
MatchState(E) ==
  [turn |-> E.turn, neutral_territory |-> E.neutral_territory,
   p1 |-> E.p1, p2 |-> E.p2, history |-> E.history]

(* C27: the trace sink does not influence the engine: every step of a    *)
(* match leaves the match state, hands out the observations, takes the   *)
(* branch and returns the result that the same step leaves, hands out,   *)
(* takes and returns on the engine constructed the other way (without    *)
(* the sink, or with one) in the same match state with the same          *)
(* commands.                                                              *)
C27_SinkDoesNotInfluence ==
  [][(LET twin == OtherTrace(eng)
      IN  /\ pc = "constructed" => MatchState(eng') = MatchState(reset_engine(twin))
          /\ pc = "loop" =>
               /\ (pc' = "economy1") <=> (twin.turn < cfg.MAX_TURNS)
               /\ MatchState(eng')
                    = MatchState(IF twin.turn < cfg.MAX_TURNS THEN begin_turn(twin) ELSE twin)
          /\ pc = "economy1" => MatchState(eng') = MatchState(economy(twin, 1))
          /\ pc = "economy2" => MatchState(eng') = MatchState(economy(twin, 2))
          /\ pc = "query" =>
               /\ MatchState(eng') = MatchState(twin)
               /\ obs1' = prepare_obs(twin, 1)
               /\ obs2' = prepare_obs(twin, 2)
          /\ pc = "apply1" => MatchState(eng') = MatchState(apply_commands(twin, 1, cmd1))
          /\ pc = "apply2" => MatchState(eng') = MatchState(apply_commands(twin, 2, cmd2))
          /\ pc = "allocate" => MatchState(eng') = MatchState(allocate_neutral(twin))
          /\ pc = "combat" => MatchState(eng') = MatchState(resolve_combat(twin))
          /\ pc = "intel" => MatchState(eng') = MatchState(update_intel(twin, cmd1, cmd2))
          /\ pc = "check" =>
               /\ MatchState(eng') = MatchState(twin)
               /\ (pc' = "result") <=> winner_declared(twin)
          /\ pc = "result" =>
               /\ MatchState(eng') = MatchState(twin)
               /\ result' = Result(twin, TRUE))]_vars

(* Turn 2 of an engine with a sink: the sink was handed the lines of a   *)
(* command that sold a unit and bought defense, and allocation is next.  *)
C27_Witness ==
  /\ pc = "apply2"
  /\ eng.turn = 2
  /\ eng.trace = "sink"
  /\ cmd1 = [sell_attack |-> 1, spend_defense |-> 4]
  /\ eng.p1.attack < obs1.my.attack
  /\ eng.sunk >= 2

(* a / b rounded up, for a >= 0 and b > 0. *)
Ceil(a, b) == (a + b - 1) \div b

(* after holds the units of pl that the upkeep of a turn leaves. *)
MinimalLiquidation(pl, after) ==
  LET gold == pl.gold + pl.territory * cfg.GOLD_PER_LAND
      deficit == pl.attack * cfg.MAINT_ATK + pl.defense * cfg.MAINT_DEF - gold
      left == Max(0, deficit - pl.attack * cfg.MAINT_ATK)
  IN  IF deficit <= 0
      THEN after.attack = pl.attack /\ after.defense = pl.defense
      ELSE /\ pl.attack - after.attack = Min(pl.attack, Ceil(deficit, cfg.MAINT_ATK))
           /\ pl.defense - after.defense = Min(pl.defense, Ceil(left, cfg.MAINT_DEF))

(* C31: forced liquidation is minimal: no unit is liquidated when gold   *)
(* covers the upkeep; otherwise min(attack, ceil(deficit / attack rate)) *)
(* attack units are removed, and defense units only for the deficit left *)
(* when all attack units are gone.                                        *)
C31_LiquidationMinimal ==
  [][(pc = "economy1" => MinimalLiquidation(eng.p1, eng'.p1))
     /\ (pc = "economy2" => MinimalLiquidation(eng.p2, eng'.p2))]_vars

(* Agent 1's gold covered the upkeep of one of its two attack units: one *)
(* was liquidated, one is kept and so are its defense units.             *)
C31_Witness ==
  /\ pc = "economy2"
  /\ cfg.START_ATTACK = 2
  /\ cfg.START_DEFENSE > 0
  /\ eng.p1.attack = 1
  /\ eng.p1.defense = cfg.START_DEFENSE

(* Player pid's command step changes its gold, units and bid only. *)
MoneyOnly(pid) ==
  LET me == Player(eng, pid)
      mine == Player(eng', pid)
  IN  /\ mine.territory = me.territory
      /\ mine.expanded_total = me.expanded_total
      /\ mine.has_enemy_intel = me.has_enemy_intel
      /\ Player(eng', 3 - pid) = Player(eng, 3 - pid)
      /\ eng'.neutral_territory = eng.neutral_territory
      /\ eng'.turn = eng.turn
      /\ eng'.history = eng.history

(* C32: applying an agent's command changes only that agent's gold,      *)
(* attack, defense and pending bid: both territories, the pool, both     *)
(* expansion counters, the turn number and every attribute of the        *)
(* opponent stay as they are.                                             *)
C32_CommandsMoneyOnly ==
  [][(pc = "apply1" => MoneyOnly(1)) /\ (pc = "apply2" => MoneyOnly(2))]_vars

(* Agent 1 sold an attack unit and bid for a cell; agent 2 bought       *)
(* defense units.                                                         *)
C32_Witness ==
  /\ pc = "allocate"
  /\ cmd1 = [sell_attack |-> 1, expand |-> 1]
  /\ eng.p1.pending_expands = 1
  /\ eng.p1.attack < obs1.my.attack
  /\ cmd2 = [spend_defense |-> 9]
  /\ eng.p2.defense > obs2.my.defense
  /\ eng.p2.gold < obs2.my.gold

(* Some agent holds no territory. *)
Eliminated(E) == E.p1.territory = 0 \/ E.p2.territory = 0

(* C33 as stated: no turn is played from a state in which a winner is    *)
(* already determined.                                                    *)
C33_NoTurnOnceDetermined ==
  [][(pc = "loop" /\ Eliminated(eng)) => pc' # "economy1"]_vars

(* C33: Finished is absorbing and the termination test is made after     *)
(* every turn: a turn other than the first starts only while both        *)
(* territories are positive, the match ends after a turn exactly when a  *)
(* territory is zero, run() returns with a zero territory or at the      *)
(* cutoff, and reports the number of the last turn played.  The first    *)
(* turn is played whenever MAX_TURNS > 0.                                 *)
C33_FinishedAbsorbing ==
  [][/\ (pc = "loop" /\ pc' = "economy1") => (eng.turn = 0 \/ ~Eliminated(eng))
     /\ (pc = "loop" /\ eng.turn = 0 /\ cfg.MAX_TURNS > 0) => pc' = "economy1"
     /\ pc = "check" => (pc' = "result" <=> Eliminated(eng))
     /\ pc = "result" => /\ Eliminated(eng) \/ eng.turn = cfg.MAX_TURNS
                         /\ result'.turns = eng.turn
     /\ pc # "finished"]_vars

(* A match with start territory that ended by elimination before the     *)
(* cutoff.                                                                *)
C33_Witness ==
  /\ pc = "finished"
  /\ cfg.START_TERRITORY > 0
  /\ result.turns < cfg.MAX_TURNS
  /\ result.p2.territory = 0

(* C34: in every state of a match, from the constructed engine through  *)
(* reset, every step of every turn and the returned result, the two      *)
(* territories and the neutral pool add up to 2 * START_TERRITORY +      *)
(* NEUTRAL_TERRITORY.                                                     *)
C34_CellsConserved ==
  /\ Cells(eng) = 2 * cfg.START_TERRITORY + cfg.NEUTRAL_TERRITORY
  /\ pc = "finished" =>
       result.p1.territory + result.p2.territory + result.neutral
         = 2 * cfg.START_TERRITORY + cfg.NEUTRAL_TERRITORY

(* A match that ran to the cutoff in which agent 1 gained cells from the *)
(* pool and agent 2 lost cells in combat.                                 *)
C34_Witness ==
  /\ pc = "finished"
  /\ result.turns = cfg.MAX_TURNS
  /\ result.p1.territory > cfg.START_TERRITORY
  /\ result.p2.territory < cfg.START_TERRITORY
  /\ result.p2.territory > 0
  /\ result.neutral # cfg.NEUTRAL_TERRITORY

(* max(0, min(a, N) - min(b, N)): the cells a bid of a wins against a    *)
(* bid of b on a pool of N.                                               *)
NetGrant(a, b, N) == Max(0, Min(a, N) - Min(b, N))

(* C35: at most one agent is granted cells in an allocation: with bids   *)
(* a and b on a pool of N agent 1 gains max(0, min(a,N) - min(b,N))      *)
(* cells and agent 2 gains max(0, min(b,N) - min(a,N)), one of the two   *)
(* is 0, and the pool shrinks by what was granted.                       *)
C35_AtMostOneGranted ==
  [][pc = "allocate" =>
       (LET a == eng.p1.pending_expands
            b == eng.p2.pending_expands
            N == eng.neutral_territory
            give1 == eng'.p1.territory - eng.p1.territory
            give2 == eng'.p2.territory - eng.p2.territory
        IN  /\ give1 = NetGrant(a, b, N)
            /\ give2 = NetGrant(b, a, N)
            /\ give1 = 0 \/ give2 = 0
            /\ eng'.neutral_territory = N - give1 - give2)]_vars

(* Bids of two cells and of one cell met a pool of two: agent 1 gained   *)
(* one cell, agent 2 none, and one cell is left.                         *)
C35_Witness ==
  /\ pc = "combat"
  /\ cmd1 = [expand |-> 2]
  /\ cmd2 = [expand |-> 1]
  /\ cfg.NEUTRAL_TERRITORY = 2
  /\ eng.p1.territory = cfg.START_TERRITORY + 1
  /\ eng.p2.territory = cfg.START_TERRITORY
  /\ eng.neutral_territory = 1

(* The upkeep step of player pid charged exactly the surviving units,    *)
(* and the liquidation loop itself ended with gold >= 0.                  *)
ChargedSurvivors(pid) ==
  LET before == Player(eng, pid)
      after == Player(eng', pid)
      gold == before.gold + income(before)
      paid == [before EXCEPT !.gold = gold - upkeep_cost(before)]
  IN  /\ gold >= 0
      /\ after.gold = gold - upkeep_cost(after)
      /\ paid.gold < 0 => upkeep_loop(paid, -paid.gold).gold >= 0

(* C36: the zero-clamp of upkeep never fires: with gold >= 0 before      *)
(* upkeep, gold after apply_upkeep is the gold before minus the upkeep   *)
(* cost of the units that survive liquidation; liquidated units are      *)
(* charged nothing and no deficit is absorbed.                            *)
C36_ClampNeverFires ==
  [][(pc = "economy1" => ChargedSurvivors(1))
     /\ (pc = "economy2" => ChargedSurvivors(2))]_vars

(* Agent 2 lost units to upkeep and was left with gold: the refund of    *)
(* the last liquidated unit exceeded the deficit.                         *)
C36_Witness ==
  /\ pc = "query"
  /\ eng.turn = 1
  /\ eng.p2.attack + eng.p2.defense < cfg.START_ATTACK + cfg.START_DEFENSE
  /\ eng.p2.gold > 0

(* C37: the turn is symmetric: from equal player states the economy     *)
(* leaves both agents the same observation, a turn in which both were    *)
(* shown the same observation and issued the same command ends with      *)
(* equal player states, and a match that ends with equal player states   *)
(* is a draw; so two policies that are the same function of the          *)
(* observation draw.                                                      *)
C37_SymmetricTurn ==
  /\ (pc = "loop" /\ eng.turn = 0) => eng.p1 = eng.p2
  /\ (pc = "economy1" /\ eng.p1 = eng.p2) =>
       (LET E == economy(economy(eng, 1), 2)
        IN  E.p1 = E.p2 /\ prepare_obs(E, 1) = prepare_obs(E, 2))
  /\ (pc = "check" /\ obs1 = obs2 /\ cmd1 = cmd2) => eng.p1 = eng.p2
  /\ (pc = "finished" /\ eng.p1 = eng.p2) => result.winner = "draw"

(* A match played to the cutoff whose last turn showed both agents the   *)
(* same observation and took the same command from both; both lost cells *)
(* in combat and the match is drawn.                                      *)
C37_Witness ==
  /\ pc = "finished"
  /\ result.turns = cfg.MAX_TURNS
  /\ obs1 = obs2
  /\ cmd1 = cmd2
  /\ cmd1 # EmptyCmd
  /\ eng.p1.territory < cfg.START_TERRITORY
  /\ eng.p1.territory > 0
  /\ result.winner = "draw"

(* C38: intel lasts exactly one turn: the flag an agent carries into the *)
(* next turn is the scout field of its own command of this turn, whatever *)
(* the flag was before; nothing else in a turn changes it, it alone       *)
(* decides whether the next observation shows the private attributes, and *)
(* the empty command that stands for a failed policy call leaves the      *)
(* agent without intel.                                                    *)
C38_IntelLastsOneTurn ==
  [][/\ pc = "intel" =>
          /\ eng'.p1.has_enemy_intel = Get(cmd1, "scout", FALSE)
          /\ eng'.p2.has_enemy_intel = Get(cmd2, "scout", FALSE)
     /\ (pc # "intel" /\ pc # "constructed") =>
          /\ eng'.p1.has_enemy_intel = eng.p1.has_enemy_intel
          /\ eng'.p2.has_enemy_intel = eng.p2.has_enemy_intel
     /\ pc = "query" =>
          /\ (Private \subseteq DOMAIN obs1'.enemy) <=> eng.p1.has_enemy_intel
          /\ (Private \subseteq DOMAIN obs2'.enemy) <=> eng.p2.has_enemy_intel
          /\ \A o \in StepOutcomes(MatchCommands) :
               o.kind # "dict" => ~Get(safe_step(o), "scout", FALSE)]_vars

(* Agent 1 was shown the private attributes in a later turn, issued the  *)
(* empty command in it and has lost its intel; agent 2, which scouted,   *)
(* has it.                                                                *)
C38_Witness ==
  /\ pc = "check"
  /\ eng.turn > 1
  /\ Private \subseteq DOMAIN obs1.enemy
  /\ cmd1 = EmptyCmd
  /\ ~eng.p1.has_enemy_intel
  /\ Get(cmd2, "scout", FALSE)
  /\ eng.p2.has_enemy_intel

(* The price of the next cell of a player with no cell requested. *)
Quote(pl) == cfg.EXPAND_BASE + cfg.EXPAND_STEP * pl.expanded_total

(* Player pid's quote rises in this step by EXPAND_STEP per cell gained. *)
QuoteFollowsGrant(pid) ==
  Quote(Player(eng', pid))
    = Quote(Player(eng, pid))
        + cfg.EXPAND_STEP * (Player(eng', pid).territory - Player(eng, pid).territory)

====
